---- MODULE Spec2Model ----
(***************************************************************************)
(* Model of src/mint.py: setup_web3() followed by the mint loop of main(). *)
(* The chain client (web3) and the clock are the environment: every call   *)
(* made through asyncio.to_thread either raises or returns one of a small  *)
(* set of values.  Each action is the stretch of main() between two        *)
(* awaits, with every log() call it makes.                                 *)
(***************************************************************************)
EXTENDS Integers, Sequences, FiniteSets

VARIABLES
    pc,               \* position of main(): the statement it runs next
    MAX_ITERATIONS,   \* configuration, read once (line 25)
    web3_version,     \* web3.__version__, a string as a sequence of characters
    account_address,  \* address derived from PRIVATE_KEY by from_key (line 44)
    iteration,        \* the local counter of main() (line 58)
    transaction,      \* the local dict built at lines 76-85, NoValue before
    signed_txn,       \* the result of sign_transaction, NoValue before
    chain_nonce,      \* environment: transactions of FROM_ADDRESS mined so far
    logs,             \* every line printed by log(), in order
    calls,            \* every chain-client / sleep call made, with its outcome
    sent,             \* raw transactions accepted by send_raw_transaction
    attempts,         \* number of times the loop body has been entered
    inflight,         \* calls handed to a worker thread that have not ended
    awaiting          \* main() is suspended on an await of such a call

vars == <<pc, MAX_ITERATIONS, web3_version, account_address, iteration,
          transaction, signed_txn, chain_nonce, logs, calls, sent, attempts,
          inflight, awaiting>>

\* ---------------------------------------------------------------- bounds
MaxIterations == 2    \* largest configured MAX_ITERATIONS explored
MaxAttempts == 3      \* loop-body entries explored in one run

\* ----------------------------------------------------------- configuration
GAS_LIMIT == 5
MIN_BALANCE_SOMI == 1
\* from_wei(_, 'ether') divides by 10^18; the unit is scaled down to keep the
\* amounts inside TLC's integers, the comparison at line 67 is what matters.
WeiPerEther == 1000

FROM_ADDRESS == <<"0", "x", "a", "B">>
TO_ADDRESS == <<"0", "x", "c", "d">>
PRIVATE_KEY == "key"
BASE_DATA == "data"
CHAIN_ID == "chain"
MAX_FEE_PER_GAS == "maxfee"
MAX_PRIORITY_FEE_PER_GAS == "maxprio"

NoValue == [none |-> TRUE]

\* ------------------------------------------------------------- environment
Versions == { <<"5", ".", "9", ".", "0">>,
              <<"6", ".", "0", ".", "0">>,
              <<"1", "0", ".", "0", ".", "0">> }
DerivedAddresses == { <<"0", "x", "A", "b">>, <<"0", "x", "C", "d">> }
Iterations == {0 - 1} \cup (0 .. MaxIterations)
\* balances just below and exactly at the minimum
Balances == { MIN_BALANCE_SOMI * WeiPerEther - 1, MIN_BALANCE_SOMI * WeiPerEther }
Estimates == { GAS_LIMIT, GAS_LIMIT + 1 }
Statuses == { 0, 1 }

\* ------------------------------------------------------------ pure helpers
Last(s) == s[Len(s)]

\* code point order of the characters a version string is made of
Ord(c) ==
    CASE c = "." -> 46
      [] c = "0" -> 48 [] c = "1" -> 49 [] c = "2" -> 50 [] c = "3" -> 51
      [] c = "4" -> 52 [] c = "5" -> 53 [] c = "6" -> 54 [] c = "7" -> 55
      [] c = "8" -> 56 [] c = "9" -> 57

\* Python's str < str: lexicographic on code points
RECURSIVE StrLess(_, _)
StrLess(a, b) ==
    IF b = <<>> THEN FALSE
    ELSE IF a = <<>> THEN TRUE
    ELSE IF Ord(Head(a)) # Ord(Head(b)) THEN Ord(Head(a)) < Ord(Head(b))
    ELSE StrLess(Tail(a), Tail(b))

\* str.lower() on the characters of an address
LowerChar(c) ==
    CASE c = "A" -> "a" [] c = "B" -> "b" [] c = "C" -> "c"
      [] c = "D" -> "d" [] c = "E" -> "e" [] c = "F" -> "f"
      [] OTHER -> c
Lower(s) == [i \in DOMAIN s |-> LowerChar(s[i])]

\* w3.from_wei(balance, 'ether'): an exact decimal, whole and fractional part
from_wei(balance) ==
    [whole |-> balance \div WeiPerEther, frac |-> balance % WeiPerEther]

\* balance_eth < MIN_BALANCE_SOMI, for a decimal with 0 <= frac < one ether
DecimalLess(d, m) == d.whole < m

\* log(message, color, level="INFO"): no caller passes a level
Log(text, arg, color) ==
    [text |-> text, arg |-> arg, color |-> color, level |-> "INFO"]

Call(op, ok, val) == [op |-> op, ok |-> ok, val |-> val, pass |-> attempts]

\* ------------------------------------------------------------ setup_web3
\* setup_web3(): "ok", or the check that raised, in the order of the code.
\* connected is the answer of w3.is_connected(), key_ok whether from_key
\* accepts PRIVATE_KEY.
setup_web3(connected, key_ok) ==
    IF StrLess(web3_version, <<"6", ".", "0", ".", "0">>) THEN "version"
    ELSE IF ~connected THEN "rpc"
    ELSE IF ~key_ok THEN "key"
    ELSE IF Lower(account_address) # Lower(FROM_ADDRESS) THEN "mismatch"
    ELSE "ok"

\* the client calls setup_web3 gets to make before it returns or raises
SetupCalls(connected, key_ok) ==
    IF StrLess(web3_version, <<"6", ".", "0", ".", "0">>) THEN <<>>
    ELSE IF ~connected THEN <<Call("is_connected", TRUE, 0)>>
    ELSE <<Call("is_connected", TRUE, 1), Call("from_key", key_ok, 0)>>

\* variant: the except branch logs and falls through to the loop
SetupResultNoReturn(r) ==
    IF r = "ok"
    THEN [next |-> "while",
          out |-> <<Log("Web3 connected, account ready. Time to mint!", 0, "GREEN")>>]
    ELSE [next |-> "while",
          out |-> <<Log("Setup crashed", 0, "RED")>>]

\* try/except around setup_web3 in main(): log and go on, or log and return
SetupResult(r) ==
    IF r = "ok"
    THEN [next |-> "while",
          out |-> <<Log("Web3 connected, account ready. Time to mint!", 0, "GREEN")>>]
    ELSE [next |-> "returned",
          out |-> <<Log("Setup crashed", 0, "RED")>>]

\* ------------------------------------------------- outcomes of the loop steps
\* Each gives the statement main() runs next and the lines it logs.

\* variant: off-by-one loop test
LoopCondInclusive(i) == i <= MAX_ITERATIONS

\* while iteration < MAX_ITERATIONS
LoopCond(i) == i < MAX_ITERATIONS

IterationLog(i) == Log("Iteration: Trying mint ...", i + 1, "CYAN")

\* except branch of the balance check: logs, and has no return
BalanceRaised ==
    [next |-> "build",
     out |-> <<Log("Balance check failed. Gracefully stopping.", 0, "RED")>>]

\* variant: the wei amount is compared with the minimum, unconverted
BalanceResultRawWei(balance) ==
    IF balance < MIN_BALANCE_SOMI
    THEN [next |-> "returned",
          out |-> <<Log("Low balance. Stopping.", balance, "YELLOW")>>]
    ELSE [next |-> "build",
          out |-> <<Log("Balance. Good to go.", balance, "WHITE")>>]

\* try branch of the balance check
BalanceResult(balance) ==
    IF DecimalLess(from_wei(balance), MIN_BALANCE_SOMI)
    THEN [next |-> "returned",
          out |-> <<Log("Low balance. Stopping.", balance, "YELLOW")>>]
    ELSE [next |-> "build",
          out |-> <<Log("Balance. Good to go.", balance, "WHITE")>>]

\* lines 86-88
BuildRaised ==
    [next |-> "returned",
     out |-> <<Log("Couldn't build tx. Gracefully stopping.", 0, "RED")>>]

\* variant: the nonce is fetched for the first transaction and then reused
BuildTransactionStaleNonce(nonce) ==
    [from |-> FROM_ADDRESS, to |-> TO_ADDRESS, chainId |-> CHAIN_ID,
     gas |-> GAS_LIMIT, maxFeePerGas |-> MAX_FEE_PER_GAS,
     maxPriorityFeePerGas |-> MAX_PRIORITY_FEE_PER_GAS,
     nonce |-> IF transaction = NoValue THEN nonce ELSE transaction.nonce,
     data |-> BASE_DATA]

\* the dict literal of lines 76-85
BuildTransaction(nonce) ==
    [from |-> FROM_ADDRESS, to |-> TO_ADDRESS, chainId |-> CHAIN_ID,
     gas |-> GAS_LIMIT, maxFeePerGas |-> MAX_FEE_PER_GAS,
     maxPriorityFeePerGas |-> MAX_PRIORITY_FEE_PER_GAS,
     nonce |-> nonce, data |-> BASE_DATA]

\* lines 99-101
GasRaised ==
    [next |-> "returned",
     out |-> <<Log("Gas estimation failed. Gracefully stopping.", 0, "YELLOW")>>]

\* variant: an estimate above the limit ends the run
GasResultAbortOnOverrun(estimated_gas) ==
    IF estimated_gas > GAS_LIMIT
    THEN [next |-> "returned",
          out |-> <<Log("Gas warning: Estimate > limit.", estimated_gas, "YELLOW")>>]
    ELSE [next |-> "sign", out |-> <<>>]

\* lines 97-98: a warning, and no return
GasResult(estimated_gas) ==
    [next |-> "sign",
     out |-> IF estimated_gas > GAS_LIMIT
             THEN <<Log("Gas warning: Estimate > limit.", estimated_gas, "YELLOW")>>
             ELSE <<>>]

\* variant: the except branch of the signing has no return
SignRaisedNoReturn ==
    [next |-> "send",
     out |-> <<Log("Signing failed. Gracefully stopping.", 0, "RED")>>]

\* lines 106-108
SignRaised ==
    [next |-> "returned",
     out |-> <<Log("Signing failed. Gracefully stopping.", 0, "RED")>>]

\* w3.eth.account.sign_transaction(transaction, PRIVATE_KEY)
sign_transaction(tx, key) == [raw_transaction |-> tx, signer |-> key]

\* except branch shared by send_raw_transaction and the receipt wait
SendRaised ==
    [next |-> "returned",
     out |-> <<Log("Tx send failed. Gracefully stopping.", 0, "RED")>>]

\* line 113
SendResult ==
    [next |-> "receipt", out |-> <<Log("Tx sent!", 0, "GREEN")>>]

\* variant: the counter advances whatever the status of the receipt
ReceiptResultCountsFailed(status) ==
    IF status = 1
    THEN [next |-> "pause", inc |-> 1,
          out |-> <<Log("Mined in block", 0, "CYAN"),
                    Log("Mint successful!", 0, "GREEN")>>]
    ELSE [next |-> "pause", inc |-> 1,
          out |-> <<Log("Mined in block", 0, "CYAN"),
                    Log("Tx failed. Gracefully stopping.", 0, "RED")>>]

\* lines 117-122: the receipt came back; inc is what is added to iteration
ReceiptResult(status) ==
    IF status = 1
    THEN [next |-> "pause", inc |-> 1,
          out |-> <<Log("Mined in block", 0, "CYAN"),
                    Log("Mint successful!", 0, "GREEN")>>]
    ELSE [next |-> "pause", inc |-> 0,
          out |-> <<Log("Mined in block", 0, "CYAN"),
                    Log("Tx failed. Gracefully stopping.", 0, "RED")>>]

\* variant: the pause is taken after the last success too
PauseCondInclusive(i) == i <= MAX_ITERATIONS

\* if iteration < MAX_ITERATIONS: log and sleep
PauseCond(i) == i < MAX_ITERATIONS

\* variant: the exhaustion test is strict
FinalReportStrict(i) ==
    IF i > MAX_ITERATIONS
    THEN Log("Hit max iterations. Done!", MAX_ITERATIONS, "MAGENTA")
    ELSE Log("Stopped early-check errors above.", 0, "MAGENTA")

\* lines 132-135
FinalReport(i) ==
    IF i >= MAX_ITERATIONS
    THEN Log("Hit max iterations. Done!", MAX_ITERATIONS, "MAGENTA")
    ELSE Log("Stopped early-check errors above.", 0, "MAGENTA")

\* ------------------------------------------------------------------ state
Init ==
    /\ pc = "setup"
    /\ MAX_ITERATIONS \in Iterations
    /\ web3_version \in Versions
    /\ account_address \in DerivedAddresses
    /\ iteration = 0
    /\ transaction = NoValue
    /\ signed_txn = NoValue
    /\ chain_nonce = 0
    /\ logs = <<>>
    /\ calls = <<>>
    /\ sent = <<>>
    /\ attempts = 0
    /\ inflight = <<>>
    /\ awaiting = FALSE

config == <<MAX_ITERATIONS, web3_version, account_address>>

\* the call main() makes through asyncio.to_thread at each of its steps
CallSteps == {"setup", "balance", "build", "gas", "sign", "send", "receipt"}

OpAt(p) ==
    CASE p = "setup" -> "setup_web3"
      [] p = "balance" -> "get_balance"
      [] p = "build" -> "get_transaction_count"
      [] p = "gas" -> "estimate_gas"
      [] p = "sign" -> "sign_transaction"
      [] p = "send" -> "send_raw_transaction"
      [] p = "receipt" -> "wait_for_transaction_receipt"

\* variant: the call is handed to a thread and not awaited
ToThreadNotAwaited(running, op) ==
    [inflight |-> Append(running, op), awaiting |-> FALSE]

\* await asyncio.to_thread(f, ...): f starts in a worker thread and main()
\* is suspended until it has returned or raised
to_thread(running, op) ==
    [inflight |-> Append(running, op), awaiting |-> TRUE]

\* the call of the current step is started
Dispatch ==
    /\ pc \in CallSteps
    /\ ~awaiting
    /\ LET t == to_thread(inflight, OpAt(pc)) IN
          /\ inflight' = t.inflight
          /\ awaiting' = t.awaiting
    /\ UNCHANGED <<pc, config, iteration, transaction, signed_txn, chain_nonce,
                   logs, calls, sent, attempts>>

\* the awaited call op has returned or raised: main() resumes
Resume(op) ==
    /\ awaiting
    /\ inflight # <<>>
    /\ Last(inflight) = op
    /\ inflight' = SubSeq(inflight, 1, Len(inflight) - 1)
    /\ awaiting' = FALSE

\* lines 51-58
Setup ==
    /\ pc = "setup"
    /\ Resume(OpAt(pc))
    /\ \E connected \in BOOLEAN, key_ok \in BOOLEAN :
          LET r == SetupResult(setup_web3(connected, key_ok)) IN
          /\ calls' = calls \o SetupCalls(connected, key_ok)
          /\ logs' = logs \o r.out
          /\ pc' = r.next
    /\ iteration' = 0
    /\ UNCHANGED <<config, transaction, signed_txn, chain_nonce, sent, attempts>>

\* lines 59-61: the loop test and the head of the body
LoopHead ==
    /\ pc = "while"
    /\ UNCHANGED <<inflight, awaiting>>
    /\ IF LoopCond(iteration)
       THEN /\ attempts < MaxAttempts
            /\ attempts' = attempts + 1
            /\ logs' = Append(logs, IterationLog(iteration))
            /\ pc' = "balance"
       ELSE /\ pc' = "final"
            /\ UNCHANGED <<attempts, logs>>
    /\ UNCHANGED <<config, iteration, transaction, signed_txn, chain_nonce,
                   calls, sent>>

\* lines 63-72
BalanceCheck ==
    /\ pc = "balance"
    /\ Resume(OpAt(pc))
    /\ \E raises \in BOOLEAN, balance \in Balances :
          LET r == IF ~raises THEN BalanceResult(balance) ELSE BalanceRaised IN
          /\ calls' = Append(calls, Call("get_balance", ~raises, IF ~raises THEN balance ELSE 0))
          /\ logs' = logs \o r.out
          /\ pc' = r.next
    /\ UNCHANGED <<config, iteration, transaction, signed_txn, chain_nonce,
                   sent, attempts>>

\* lines 74-88
BuildTx ==
    /\ pc = "build"
    /\ Resume(OpAt(pc))
    /\ \E raises \in BOOLEAN :
          LET r == IF ~raises THEN [next |-> "gas", out |-> <<>>] ELSE BuildRaised IN
          /\ calls' = Append(calls, Call("get_transaction_count", ~raises,
                                         IF ~raises THEN chain_nonce ELSE 0))
          /\ transaction' = IF ~raises THEN BuildTransaction(chain_nonce) ELSE transaction
          /\ logs' = logs \o r.out
          /\ pc' = r.next
    /\ UNCHANGED <<config, iteration, signed_txn, chain_nonce, sent, attempts>>

\* lines 90-101
GasEstimate ==
    /\ pc = "gas"
    /\ Resume(OpAt(pc))
    /\ \E raises \in BOOLEAN, estimated_gas \in Estimates :
          LET r == IF ~raises THEN GasResult(estimated_gas) ELSE GasRaised IN
          /\ calls' = Append(calls, Call("estimate_gas", ~raises,
                                         IF ~raises THEN estimated_gas ELSE 0))
          /\ logs' = logs \o r.out
          /\ pc' = r.next
    /\ UNCHANGED <<config, iteration, transaction, signed_txn, chain_nonce,
                   sent, attempts>>

\* lines 103-108
SignTx ==
    /\ pc = "sign"
    /\ Resume(OpAt(pc))
    /\ \E raises \in BOOLEAN :
          LET r == IF ~raises THEN [next |-> "send", out |-> <<>>] ELSE SignRaised IN
          /\ calls' = Append(calls, Call("sign_transaction", ~raises,
                                         IF ~raises THEN transaction.gas ELSE 0))
          /\ signed_txn' = IF ~raises THEN sign_transaction(transaction, PRIVATE_KEY)
                                 ELSE signed_txn
          /\ logs' = logs \o r.out
          /\ pc' = r.next
    /\ UNCHANGED <<config, iteration, transaction, chain_nonce, sent, attempts>>

\* lines 110-113, and 123-125 when the broadcast raises
SendTx ==
    /\ pc = "send"
    /\ Resume(OpAt(pc))
    /\ \E raises \in BOOLEAN :
          LET r == IF ~raises THEN SendResult ELSE SendRaised IN
          /\ calls' = Append(calls, Call("send_raw_transaction", ~raises,
                                         IF ~raises THEN signed_txn.raw_transaction.gas ELSE 0))
          /\ sent' = IF ~raises THEN Append(sent, signed_txn.raw_transaction) ELSE sent
          /\ logs' = logs \o r.out
          /\ pc' = r.next
    /\ UNCHANGED <<config, iteration, transaction, signed_txn, chain_nonce, attempts>>

\* lines 115-125: wait_for_transaction_receipt(tx_hash, timeout=300)
WaitReceipt ==
    /\ pc = "receipt"
    /\ Resume(OpAt(pc))
    /\ \E raises \in BOOLEAN, status \in Statuses :
          IF ~raises
          THEN LET r == ReceiptResult(status) IN
               /\ calls' = Append(calls, Call("wait_for_transaction_receipt", TRUE, status))
               /\ chain_nonce' = chain_nonce + 1
               /\ iteration' = iteration + r.inc
               /\ logs' = logs \o r.out
               /\ pc' = r.next
          ELSE /\ calls' = Append(calls, Call("wait_for_transaction_receipt", FALSE, 0))
               /\ logs' = logs \o SendRaised.out
               /\ pc' = SendRaised.next
               /\ UNCHANGED <<chain_nonce, iteration>>
    /\ UNCHANGED <<config, transaction, signed_txn, sent, attempts>>

\* lines 127-130
Pause ==
    /\ pc = "pause"
    /\ UNCHANGED <<inflight, awaiting>>
    /\ IF PauseCond(iteration)
       THEN /\ logs' = Append(logs, Log("Chilling", 0, "WHITE"))
            /\ calls' = Append(calls, Call("sleep", TRUE, 0))
       ELSE UNCHANGED <<logs, calls>>
    /\ pc' = "while"
    /\ UNCHANGED <<config, iteration, transaction, signed_txn, chain_nonce,
                   sent, attempts>>

\* lines 132-135
Final ==
    /\ pc = "final"
    /\ UNCHANGED <<inflight, awaiting>>
    /\ logs' = Append(logs, FinalReport(iteration))
    /\ pc' = "returned"
    /\ UNCHANGED <<config, iteration, transaction, signed_txn, chain_nonce,
                   calls, sent, attempts>>

Next ==
    \/ Dispatch
    \/ Setup
    \/ LoopHead
    \/ BalanceCheck
    \/ BuildTx
    \/ GasEstimate
    \/ SignTx
    \/ SendTx
    \/ WaitReceipt
    \/ Pause
    \/ Final

Spec == Init /\ [][Next]_vars

\* the scheduler (asyncio.run) drives main() until it returns
FairSpec == Spec /\ WF_vars(Next)

\* ===================================================== history vocabulary
LoopOps == {"get_balance", "get_transaction_count", "estimate_gas",
            "sign_transaction", "send_raw_transaction",
            "wait_for_transaction_receipt"}

CountLogs(text) == Cardinality({i \in DOMAIN logs : logs[i].text = text})
CountCalls(op) == Cardinality({i \in DOMAIN calls : calls[i].op = op})

SetupSucceeded ==
    /\ logs # <<>>
    /\ logs[1].text = "Web3 connected, account ready. Time to mint!"

\* the call returned, with a sufficient balance / a success status
CallSucceeded(c) ==
    /\ c.ok
    /\ c.op = "get_balance" => c.val >= MIN_BALANCE_SOMI * WeiPerEther
    /\ c.op = "wait_for_transaction_receipt" => c.val = 1

AllSucceed == \A i \in DOMAIN calls : CallSucceeded(calls[i])

\* k of the "Iteration k/N" line that opened the current pass
IterationLabel ==
    LET S == {i \in DOMAIN logs : logs[i].text = "Iteration: Trying mint ..."}
    IN  logs[CHOOSE i \in S : \A j \in S : j <= i].arg

\* the loop-step calls of pass p
PassCalls(p) == {i \in DOMAIN calls : calls[i].pass = p /\ calls[i].op \in LoopOps}

ExhaustionReport == Log("Hit max iterations. Done!", MAX_ITERATIONS, "MAGENTA")

\* ================================================================= claims

\* C1: with N >= 1, a successful setup and every chain-client call succeeding
\* (balance >= minimum, receipt status 1), main() makes exactly N passes, N
\* broadcasts and N success lines, and returns with the exhaustion report
\* "Hit max iterations (N). Done!" as its last line; and it does return.
C1_Outcome ==
    (pc = "returned" /\ SetupSucceeded /\ AllSucceed /\ MAX_ITERATIONS >= 1)
    => /\ attempts = MAX_ITERATIONS
       /\ \A op \in LoopOps : CountCalls(op) = MAX_ITERATIONS
       /\ Len(sent) = MAX_ITERATIONS
       /\ CountLogs("Mint successful!") = MAX_ITERATIONS
       /\ iteration = MAX_ITERATIONS
       /\ Last(logs) = ExhaustionReport
       /\ CountLogs("Hit max iterations. Done!") = 1

C1_AllSuccessRunsNIterations ==
    /\ []C1_Outcome
    /\ <>(pc = "returned" \/ ~AllSucceed)

C1_Witness ==
    /\ pc = "returned" /\ SetupSucceeded /\ AllSucceed
    /\ MAX_ITERATIONS = MaxIterations
    /\ Len(sent) = MaxIterations
    /\ Last(logs) = ExhaustionReport

\* C2: a balance query that raises is the last call of the run: no nonce
\* fetch, estimate, signing, broadcast or receipt wait follows it, in this
\* pass or a later one.
C2_BalanceFailureStopsRun ==
    \A i \in DOMAIN calls :
        (calls[i].op = "get_balance" /\ ~calls[i].ok) => i = Len(calls)

\* C3: a receipt with a failed status ends the loop with k-1 successes: no
\* balance query, build, signing or broadcast is made after it.
C3_FailedReceiptStopsRun ==
    \A i \in DOMAIN calls :
        (calls[i].op = "wait_for_transaction_receipt" /\ calls[i].ok
            /\ calls[i].val # 1)
        => /\ \A j \in DOMAIN calls : j > i => calls[j].op \notin LoopOps
           /\ iteration = IterationLabel - 1

\* C4: a nonce fetch, gas estimate, signing, broadcast or receipt wait that
\* raises in the pass labelled k is the last call of the run: its error line
\* is the last line logged, main() has returned, the counter is k-1 (and so
\* is the number of success lines), and no later step or pass is started.
FatalOps == LoopOps \ {"get_balance"}

FailureText(op) ==
    CASE op = "get_transaction_count" -> "Couldn't build tx. Gracefully stopping."
      [] op = "estimate_gas" -> "Gas estimation failed. Gracefully stopping."
      [] op = "sign_transaction" -> "Signing failed. Gracefully stopping."
      [] op = "send_raw_transaction" -> "Tx send failed. Gracefully stopping."
      [] op = "wait_for_transaction_receipt" -> "Tx send failed. Gracefully stopping."

C4_StepFailureStopsRun ==
    \A i \in DOMAIN calls :
        (calls[i].op \in FatalOps /\ ~calls[i].ok)
        => /\ i = Len(calls)
           /\ pc = "returned"
           /\ Last(logs).text = FailureText(calls[i].op)
           /\ calls[i].pass = attempts
           /\ iteration = IterationLabel - 1
           /\ CountLogs("Mint successful!") = IterationLabel - 1

C4_Witness ==
    /\ pc = "returned"
    /\ calls # <<>>
    /\ Last(calls).op = "sign_transaction" /\ ~Last(calls).ok
    /\ IterationLabel = 2
    /\ iteration = 1

\* C5: a balance below the minimum in the pass labelled k ends the run: the
\* balance query is the only call of that pass (no nonce fetch, build,
\* signing or broadcast), the one low-balance line is the last line logged,
\* and k-1 passes have succeeded.
C5_LowBalanceStopsRun ==
    \A i \in DOMAIN calls :
        (calls[i].op = "get_balance" /\ calls[i].ok
            /\ calls[i].val < MIN_BALANCE_SOMI * WeiPerEther)
        => /\ i = Len(calls)
           /\ pc = "returned"
           /\ PassCalls(calls[i].pass) = {i}
           /\ Last(logs).text = "Low balance. Stopping."
           /\ CountLogs("Low balance. Stopping.") = 1
           /\ iteration = IterationLabel - 1
           /\ CountLogs("Mint successful!") = IterationLabel - 1
           /\ Len(sent) = CountCalls("get_transaction_count")

C5_Witness ==
    /\ pc = "returned"
    /\ calls # <<>>
    /\ Last(calls).op = "get_balance" /\ Last(calls).ok
    /\ Last(calls).val < MIN_BALANCE_SOMI * WeiPerEther
    /\ IterationLabel = 2
    /\ CountLogs("Mint successful!") = 1

C5_WitnessFirstCall ==
    /\ pc = "returned"
    /\ CountCalls("get_balance") = 1
    /\ Last(calls).op = "get_balance"
    /\ Last(logs).text = "Low balance. Stopping."
    /\ transaction = NoValue

\* C6: whatever the chain client answers, at most N passes of the loop body
\* are started in one run.
C6_AtMostNAttempts ==
    MAX_ITERATIONS >= 1 => attempts <= MAX_ITERATIONS

\* C7: a run that entered the loop ends with one of the two final reports:
\* the exhaustion report when the counter reached N, the stopped-early report
\* otherwise.
C7_FinalReport ==
    (pc = "returned" /\ attempts >= 1)
    => /\ Last(logs).text \in {"Hit max iterations. Done!",
                               "Stopped early-check errors above."}
       /\ Last(logs).text = "Hit max iterations. Done!"
            <=> iteration >= MAX_ITERATIONS

\* C8: a broadcast is preceded, in the same pass and in this order, by a
\* balance query that returned a sufficient balance, a nonce fetch, a gas
\* estimate and a signing that all succeeded.
C8_StepOrder ==
    \A i \in DOMAIN calls :
        calls[i].op = "send_raw_transaction"
        => /\ i > 4
           /\ \A d \in 1 .. 4 : calls[i - d].pass = calls[i].pass
           /\ calls[i - 4].op = "get_balance" /\ CallSucceeded(calls[i - 4])
           /\ calls[i - 3].op = "get_transaction_count" /\ calls[i - 3].ok
           /\ calls[i - 2].op = "estimate_gas" /\ calls[i - 2].ok
           /\ calls[i - 1].op = "sign_transaction" /\ calls[i - 1].ok

\* C9: a gas estimate above GAS_LIMIT does not abort the pass: one warning is
\* logged, the next calls are the signing and the broadcast, and the
\* transaction signed and sent carries GAS_LIMIT.
Overrun(c) == c.op = "estimate_gas" /\ c.ok /\ c.val > GAS_LIMIT

C9_GasOverrunProceeds ==
    /\ \A i \in DOMAIN calls :
          Overrun(calls[i])
          => /\ i = Len(calls)
                 => /\ pc = "sign"
                    /\ Last(logs) = Log("Gas warning: Estimate > limit.",
                                        calls[i].val, "YELLOW")
                    /\ transaction.gas = GAS_LIMIT
             /\ i < Len(calls)
                 => /\ calls[i + 1].op = "sign_transaction"
                    /\ calls[i + 1].pass = calls[i].pass
                    /\ calls[i + 1].ok => calls[i + 1].val = GAS_LIMIT
             /\ (i + 1 < Len(calls) /\ calls[i + 1].ok)
                 => /\ calls[i + 2].op = "send_raw_transaction"
                    /\ calls[i + 2].pass = calls[i].pass
                    /\ calls[i + 2].ok => calls[i + 2].val = GAS_LIMIT
    /\ CountLogs("Gas warning: Estimate > limit.")
         = Cardinality({i \in DOMAIN calls : Overrun(calls[i])})
    /\ \A j \in DOMAIN sent : sent[j].gas = GAS_LIMIT
    /\ signed_txn # NoValue => signed_txn.raw_transaction.gas = GAS_LIMIT

C9_Witness ==
    /\ Len(calls) > 2
    /\ Last(calls).op = "send_raw_transaction" /\ Last(calls).ok
    /\ Last(calls).val = GAS_LIMIT
    /\ Overrun(calls[Len(calls) - 2])
    /\ Last(sent).gas = GAS_LIMIT

\* C10: when setup fails (incompatible library version, endpoint unreachable,
\* derived address different from FROM_ADDRESS ignoring case) the failure is
\* logged and main() returns before the loop: no balance query, nonce fetch,
\* estimate, signing or broadcast is ever made.
RECURSIVE ParseMajor(_, _)
ParseMajor(s, acc) ==
    IF s = <<>> \/ Head(s) = "." THEN acc
    ELSE ParseMajor(Tail(s), 10 * acc + (Ord(Head(s)) - Ord("0")))

VersionIncompatible == ParseMajor(web3_version, 0) < 6

EndpointUnreachable ==
    \E i \in DOMAIN calls : calls[i].op = "is_connected" /\ calls[i].val = 0

AddressMismatch ==
    \E i \in DOMAIN FROM_ADDRESS :
        LowerChar(account_address[i]) # LowerChar(FROM_ADDRESS[i])

C10_SetupFailureAborts ==
    (pc # "setup" /\ (VersionIncompatible \/ EndpointUnreachable \/ AddressMismatch))
    => /\ pc = "returned"
       /\ logs = <<Log("Setup crashed", 0, "RED")>>
       /\ attempts = 0
       /\ \A i \in DOMAIN calls : calls[i].op \notin LoopOps
       /\ sent = <<>>

C10_Witness ==
    /\ pc = "returned"
    /\ ~VersionIncompatible /\ ~EndpointUnreachable /\ AddressMismatch
    /\ CountCalls("from_key") = 1
    /\ logs = <<Log("Setup crashed", 0, "RED")>>

\* C11: the counter starts at 0, changes only by +1 in the step that observes
\* a receipt with status 1, never decreases, and always equals the number of
\* success-status receipts observed so far; it never exceeds N.
SuccessReceipts ==
    Cardinality({i \in DOMAIN calls :
        /\ calls[i].op = "wait_for_transaction_receipt"
        /\ calls[i].ok
        /\ calls[i].val = 1})

CounterStep ==
    iteration' # iteration
    => /\ iteration' = iteration + 1
       /\ Len(calls') = Len(calls) + 1
       /\ Last(calls').op = "wait_for_transaction_receipt"
       /\ Last(calls').ok
       /\ Last(calls').val = 1
       /\ Last(logs').text = "Mint successful!"

C12_OneCallInFlight ==
    /\ Len(inflight) <= 1
    /\ awaiting <=> inflight # <<>>
    /\ inflight # <<>> => inflight[1] = OpAt(pc)
    /\ \A i, j \in DOMAIN calls :
          (i < j /\ calls[i].op = "send_raw_transaction"
                 /\ calls[j].op = "send_raw_transaction")
          => \E k \in DOMAIN calls :
                /\ i < k /\ k < j
                /\ calls[k].op = "wait_for_transaction_receipt"
                /\ calls[k].ok
    /\ (inflight # <<>> /\ inflight[1] = "send_raw_transaction" /\ calls # <<>>)
          => Last(calls).op = "sign_transaction"

C12_Witness ==
    /\ inflight = <<"send_raw_transaction">>
    /\ CountCalls("send_raw_transaction") = 1
    /\ CountCalls("wait_for_transaction_receipt") = 1

\* C13: the delay is taken exactly when the loop goes on: a receipt is
\* followed by one sleep iff the counter is then below N, every sleep stands
\* between the receipt of one pass and the balance query of the next, and a
\* run in which everything succeeds makes N-1 sleeps.
SuccessesUpTo(i) ==
    Cardinality({j \in 1 .. i :
        /\ calls[j].op = "wait_for_transaction_receipt"
        /\ calls[j].ok
        /\ calls[j].val = 1})

C13_SleepBetweenIterations ==
    /\ \A i \in DOMAIN calls :
          (calls[i].op = "wait_for_transaction_receipt" /\ calls[i].ok)
          => IF SuccessesUpTo(i) < MAX_ITERATIONS
             THEN /\ i = Len(calls) => pc = "pause"
                  /\ i < Len(calls) => calls[i + 1].op = "sleep"
             ELSE /\ i = Len(calls)
                  /\ pc \in {"pause", "while", "final", "returned"}
    /\ \A i \in DOMAIN calls :
          calls[i].op = "sleep"
          => /\ i > 1
             /\ calls[i - 1].op = "wait_for_transaction_receipt"
             /\ calls[i - 1].ok
             /\ calls[i - 1].pass = calls[i].pass
             /\ SuccessesUpTo(i) < MAX_ITERATIONS
             /\ i < Len(calls)
                 => /\ calls[i + 1].op = "get_balance"
                    /\ calls[i + 1].pass = calls[i].pass + 1
    /\ CountLogs("Chilling") = CountCalls("sleep")
    /\ (pc = "returned" /\ SetupSucceeded /\ AllSucceed /\ MAX_ITERATIONS >= 1)
          => CountCalls("sleep") = MAX_ITERATIONS - 1

C13_Witness ==
    /\ pc = "returned" /\ SetupSucceeded /\ AllSucceed
    /\ MAX_ITERATIONS = MaxIterations
    /\ iteration = MaxIterations
    /\ CountCalls("sleep") = MaxIterations - 1
    /\ Last(calls).op = "wait_for_transaction_receipt"

\* C14: every transaction signed and broadcast carries the nonce returned by
\* the one nonce fetch of its own pass, and that fetch was made after the
\* receipt wait of the previous pass had completed.
NonceFetches(p) ==
    {i \in DOMAIN calls : calls[i].op = "get_transaction_count" /\ calls[i].pass = p}

OkSends ==
    {i \in DOMAIN calls : calls[i].op = "send_raw_transaction" /\ calls[i].ok}

\* the position in sent of the transaction accepted by call i
SentIndex(i) == Cardinality({j \in OkSends : j <= i})

FreshNonce(tx) ==
    \E j \in NonceFetches(attempts) : calls[j].ok /\ tx.nonce = calls[j].val

C14_FreshNoncePerTransaction ==
    /\ Len(sent) = Cardinality(OkSends)
    /\ \A p \in 1 .. attempts : Cardinality(NonceFetches(p)) <= 1
    /\ \A i \in OkSends :
          \E j \in NonceFetches(calls[i].pass) :
             /\ j < i
             /\ calls[j].ok
             /\ sent[SentIndex(i)].nonce = calls[j].val
             /\ calls[i].pass > 1
                 => \E k \in DOMAIN calls :
                       /\ k < j
                       /\ calls[k].op = "wait_for_transaction_receipt"
                       /\ calls[k].ok
                       /\ calls[k].pass = calls[i].pass - 1
    /\ pc \in {"gas", "sign", "send", "receipt"} => FreshNonce(transaction)
    /\ pc \in {"send", "receipt"} => FreshNonce(signed_txn.raw_transaction)

C14_Witness ==
    /\ Len(sent) = 2
    /\ sent[1].nonce # sent[2].nonce
    /\ Cardinality(NonceFetches(1)) = 1
    /\ Cardinality(NonceFetches(2)) = 1

\* C15: every line logged for a stopping condition carries the error level,
\* the gas-estimate-overrun line the warning level, and every other line the
\* informational level.
StopTexts ==
    {"Balance check failed. Gracefully stopping.",
     "Couldn't build tx. Gracefully stopping.",
     "Gas estimation failed. Gracefully stopping.",
     "Signing failed. Gracefully stopping.",
     "Tx send failed. Gracefully stopping.",
     "Tx failed. Gracefully stopping."}

ExpectedLevel(text) ==
    IF text \in StopTexts THEN "ERROR"
    ELSE IF text = "Gas warning: Estimate > limit." THEN "WARNING"
    ELSE "INFO"

C15_LogLevels ==
    \A i \in DOMAIN logs : logs[i].level = ExpectedLevel(logs[i].text)

\* C17: with N <= 0 and a successful setup the loop body is never entered: no
\* balance query, nonce fetch, estimate, signing, broadcast or sleep is made,
\* and main() returns with the exhaustion report as its last line.
C17_Outcome ==
    (MAX_ITERATIONS <= 0 /\ SetupSucceeded)
    => /\ attempts = 0
       /\ \A i \in DOMAIN calls : calls[i].op \notin LoopOps \cup {"sleep"}
       /\ sent = <<>>
       /\ transaction = NoValue
       /\ iteration = 0
       /\ pc \in {"while", "final", "returned"}
       /\ pc = "returned"
            => /\ Len(logs) = 2
               /\ Last(logs) = ExhaustionReport

C17_NoIterationWhenMaxNotPositive ==
    /\ []C17_Outcome
    /\ <>(MAX_ITERATIONS > 0 \/ pc = "returned")

C17_Witness ==
    /\ pc = "returned"
    /\ MAX_ITERATIONS < 0
    /\ SetupSucceeded
    /\ Last(logs) = ExhaustionReport
    /\ attempts = 0

====
